---- MODULE Spec2Model ----
(***************************************************************************)
(* A model of nerddex/tcgdata: scripts/utils.py and scripts/daily_update.py *)
(*                                                                         *)
(* Strings that the code takes apart (archive member names) are sequences  *)
(* of atoms; JSON scalars are records [t, n, s] (t the JSON type); prices  *)
(* are integers in cents; a calendar date is a day number and its          *)
(* '%Y-%m-%d' label is the decimal string of that number.                  *)
(***************************************************************************)
EXTENDS Integers, Sequences, FiniteSets, TLC

(***************************************************************************)
(* Bounds of the model                                                     *)
(***************************************************************************)
\* archive members per archive in the extractor's input space
MaxEntries == 2
\* records per key in the aggregator's input space
MaxRecs == 3
\* runs of daily_update.py in one behaviour
MaxRuns == 3

(***************************************************************************)
(* Configuration (utils.py 18-27) and the literals of the code             *)
(***************************************************************************)
TARGET_CATEGORIES == {<<"1">>, <<"2">>, <<"3">>, <<"68">>}

PRICE_FIELDS == {"lowPrice", "midPrice", "highPrice", "marketPrice", "directLowPrice"}

\* days_diff <= 30 and days_diff <= 7 in calculate_averages
Window30 == 30
Window7 == 7
\* fetch_and_build_history(days=30, ...) as main calls it
HistoryDays == 30
\* len(parts) >= 4 in the member filter
MinParts == 4

(***************************************************************************)
(* JSON scalars                                                            *)
(***************************************************************************)
JAbsent == [t |-> "absent", n |-> 0, s |-> ""]
JNull == [t |-> "null", n |-> 0, s |-> ""]
JNum(n) == [t |-> "num", n |-> n, s |-> ""]
JStr(s) == [t |-> "str", n |-> 0, s |-> s]

\* dict.get(key): a missing key reads as None
Get(v) == IF v.t = "absent" THEN JNull ELSE v

\* dict.get(key, default)
GetDefault(v, default) == IF v.t = "absent" THEN default ELSE v

\* Python truthiness of a JSON scalar: None, 0 and "" are falsy
Truthy(v) ==
    CASE v.t = "num" -> v.n # 0
      [] v.t = "str" -> v.s # ""
      [] OTHER -> FALSE

\* str(product_id)
PyStr(v) == IF v.t = "num" THEN ToString(v.n) ELSE v.s

\* the integers whose decimal form the model's product ids can spell
PidNumbers == {0, 555, 556}

\* int(product_id) raises ValueError unless the string is a decimal numeral
IntParses(s) == \E n \in PidNumbers : ToString(n) = s

PyInt(s) == CHOOSE n \in PidNumbers : ToString(n) = s

(***************************************************************************)
(* Dates                                                                   *)
(***************************************************************************)
Today0 == 100

Dates == (Today0 - 40) .. (Today0 + 5)

\* date.strftime('%Y-%m-%d')
strftime(d) == ToString(d)

\* datetime.strptime(s, '%Y-%m-%d') raises ValueError on anything else
DateParses(s) == \E d \in Dates : ToString(d) = s

strptime(s) == CHOOSE d \in Dates : ToString(d) = s

(***************************************************************************)
(* Archive member filter (utils.py 70-73)                                  *)
(***************************************************************************)
\* fname.replace('\\', '/')
ReplaceBackslash(fname) ==
    [i \in DOMAIN fname |-> IF fname[i] = "\\" THEN "/" ELSE fname[i]]

RECURSIVE Split(_)
\* str.split('/'): the pieces between separators, empty pieces kept
Split(s) ==
    IF \A i \in DOMAIN s : s[i] # "/"
    THEN <<s>>
    ELSE LET k == CHOOSE i \in DOMAIN s :
                     s[i] = "/" /\ \A j \in 1..(i - 1) : s[j] # "/"
         IN <<SubSeq(s, 1, k - 1)>> \o Split(SubSeq(s, k + 1, Len(s)))

Parts(fname) == Split(ReplaceBackslash(fname))

\* the filter without its test of the number of segments
Qualifies_NoLengthCheck(fname, target_categories) ==
    LET parts == Parts(fname)
    IN /\ Len(parts) >= 2
       /\ parts[2] \in target_categories
       /\ parts[Len(parts)] = <<"prices">>

Qualifies(fname, target_categories) ==
    LET parts == Parts(fname)
    IN /\ Len(parts) >= MinParts
       /\ parts[2] \in target_categories
       /\ parts[Len(parts)] = <<"prices">>

(***************************************************************************)
(* price_data: a dict in insertion order, as a sequence of                 *)
(* [key, records] with distinct keys                                       *)
(***************************************************************************)
HasKey(pd, key) == \E j \in DOMAIN pd : pd[j].key = key

KeyIndex(pd, key) == CHOOSE j \in DOMAIN pd : pd[j].key = key

\* price_data[key].extend(records) on a defaultdict(list)
Extend(pd, key, records) ==
    IF HasKey(pd, key)
    THEN [pd EXCEPT ![KeyIndex(pd, key)].records = @ \o records]
    ELSE Append(pd, [key |-> key, records |-> records])

(***************************************************************************)
(* Parsing one member (utils.py 94-131)                                    *)
(*                                                                         *)
(* content.kind: "malformed" (json.load raises), "scalar" (neither dict    *)
(* nor list), "results" (a dict with a results list), "list" (a bare       *)
(* list), "object" (a dict without results, itself the one item).          *)
(* content.items is the list the code iterates.                            *)
(***************************************************************************)
MakeRecord(item, date_str) ==
    [date |-> date_str,
     productId |-> Get(item.productId),
     subTypeName |-> GetDefault(item.subTypeName, JStr("Normal")).s,
     price |-> [f \in PRICE_FIELDS |-> Get(item.price[f])]]

MakeKey(category_id, item) ==
    <<category_id, PyStr(Get(item.productId)), GetDefault(item.subTypeName, JStr("Normal")).s>>

RECURSIVE ParseItems(_, _, _, _, _)
\* the loop over items; an item that is not a dict raises at item.get and
\* the member's except clause ends the loop, the records before it kept
ParseItems(items, i, category_id, date_str, pd) ==
    IF i > Len(items) THEN pd
    ELSE IF ~items[i].isDict THEN pd
    ELSE IF ~Truthy(Get(items[i].productId))
         THEN ParseItems(items, i + 1, category_id, date_str, pd)
    ELSE ParseItems(items, i + 1, category_id, date_str,
                    Extend(pd, MakeKey(category_id, items[i]),
                           <<MakeRecord(items[i], date_str)>>))

ParseMember(entry, date_str, pd) ==
    LET category_id == Parts(entry.name)[2]
        content == entry.content
    IN CASE content.kind \in {"malformed", "scalar"} -> pd
         [] OTHER -> ParseItems(content.items, 1, category_id, date_str, pd)

RECURSIVE ParseMembers(_, _, _, _)
ParseMembers(files, i, date_str, pd) ==
    IF i > Len(files) THEN pd
    ELSE ParseMembers(files, i + 1, date_str, ParseMember(files[i], date_str, pd))

(***************************************************************************)
(* extract_prices_from_archive (utils.py 53-140)                           *)
(*                                                                         *)
(* archive.damage: "none"; "header" (SevenZipFile cannot open it); "data"  *)
(* (z.extract raises part-way).  partial: whether z.extract had created    *)
(* the scratch directory when it raised.  The result holds the returned    *)
(* mapping, whether the call raised, the scratch directories on disk and   *)
(* the members that were extracted and opened.                             *)
(***************************************************************************)
FilesToProcess(archive, target_categories) ==
    SelectSeq(archive.entries, LAMBDA e : Qualifies(e.name, target_categories))

extract_prices_from_archive(archive, date_str, target_categories, temps, partial) ==
    LET files_to_process == FilesToProcess(archive, target_categories)
    IN IF archive.damage = "header"
       THEN [raised |-> TRUE, price_data |-> <<>>, temps |-> temps, parsed |-> <<>>]
       ELSE IF files_to_process = <<>>
       THEN [raised |-> FALSE, price_data |-> <<>>, temps |-> temps, parsed |-> <<>>]
       ELSE IF archive.damage = "data"
       THEN [raised |-> TRUE, price_data |-> <<>>,
             temps |-> IF partial THEN temps \cup {date_str} ELSE temps \ {date_str},
             parsed |-> <<>>]
       ELSE [raised |-> FALSE,
             price_data |-> ParseMembers(files_to_process, 1, date_str, <<>>),
             temps |-> temps \ {date_str},
             parsed |-> files_to_process]

(***************************************************************************)
(* calculate_averages (utils.py 143-189)                                   *)
(***************************************************************************)
RECURSIVE InsertByDateDesc(_, _)
\* r goes after the records whose date is not older than its own
InsertByDateDesc(sorted, r) ==
    IF sorted = <<>> THEN <<r>>
    ELSE IF strptime(Head(sorted).date) >= strptime(r.date)
         THEN <<Head(sorted)>> \o InsertByDateDesc(Tail(sorted), r)
         ELSE <<r>> \o sorted

RECURSIVE SortedByDateDesc(_, _)
\* sorted(price_records, key=date, reverse=True): newest first, stable
SortedByDateDesc(records, i) ==
    IF i = 0 THEN <<>>
    ELSE InsertByDateDesc(SortedByDateDesc(records, i - 1), records[i])

days_diff(today, record) == today - strptime(record.date)

\* the window test with < for <=
InWindow_Exclusive(today, record, window) ==
    DateParses(record.date) /\ days_diff(today, record) < window

InWindow(today, record, window) ==
    DateParses(record.date) /\ days_diff(today, record) <= window

WindowRecords(records, today, window) ==
    SelectSeq(records, LAMBDA r : InWindow(today, r, window))

\* values = [r[field] for r in records if r.get(field) is not None]
Values(records, field) ==
    LET kept == SelectSeq(records, LAMBDA r : r.price[field].t # "null")
    IN [j \in DOMAIN kept |-> kept[j].price[field]]

RECURSIVE SumSeq(_)
SumSeq(values) == IF values = <<>> THEN 0 ELSE Head(values).n + SumSeq(Tail(values))

\* round(total / count, 2) on cents, for total >= 0: the nearest cent, a tie
\* going to the even cent
Round2(total, count) ==
    LET q == total \div count
        r == total % count
    IN IF 2 * r < count THEN q
       ELSE IF 2 * r > count THEN q + 1
       ELSE IF q % 2 = 0 THEN q ELSE q + 1

\* sum() raises TypeError when a value is not a number
CalcAvgRaises(records, field) ==
    \E j \in DOMAIN Values(records, field) : Values(records, field)[j].t # "num"

calc_avg(records, field) ==
    LET values == Values(records, field)
    IN IF values = <<>> THEN JNull
       ELSE JNum(Round2(SumSeq(values), Len(values)))

\* the result for a non-empty list of records
calculate_averages(price_records, today) ==
    LET sorted_records == SortedByDateDesc(price_records, Len(price_records))
        records_30d == WindowRecords(sorted_records, today, Window30)
        records_7d == WindowRecords(sorted_records, today, Window7)
    IN IF \E f \in PRICE_FIELDS :
              CalcAvgRaises(records_30d, f) \/ CalcAvgRaises(records_7d, f)
       THEN [raised |-> TRUE,
             avg30 |-> [f \in PRICE_FIELDS |-> JNull],
             avg7 |-> [f \in PRICE_FIELDS |-> JNull]]
       ELSE [raised |-> FALSE,
             avg30 |-> [f \in PRICE_FIELDS |-> calc_avg(records_30d, f)],
             avg7 |-> [f \in PRICE_FIELDS |-> calc_avg(records_7d, f)]]

(***************************************************************************)
(* The product store: a function from <<category_id, file stem>> (the file *)
(* <data_dir>/<category_id>/<stem>.json) to the document in it             *)
(***************************************************************************)
EmptyStore == [p \in {} |-> 0]

\* output_dir / f"{product_id}.json"
OutputFile(category_id, product_id, sub_type) == <<category_id, product_id>>

\* update_product_file (utils.py 192-217): the store after the call and
\* whether the call raised
update_product_file(st, category_id, product_id, sub_type, price_records, today) ==
    IF price_records = <<>> THEN [raised |-> FALSE, store |-> st]
    ELSE LET averages == calculate_averages(price_records, today)
         IN IF averages.raised \/ ~IntParses(product_id)
            THEN [raised |-> TRUE, store |-> st]
            ELSE [raised |-> FALSE,
                  store |-> (OutputFile(category_id, product_id, sub_type) :>
                                 [productId |-> PyInt(product_id),
                                  subTypeName |-> sub_type,
                                  lastUpdated |-> strftime(today),
                                  avg30 |-> averages.avg30,
                                  avg7 |-> averages.avg7]) @@ st]

RECURSIVE UpdateEach(_, _, _, _)
\* for (category_id, product_id, sub_type), records in price_data.items():
\*     update_product_file(...)
\* (utils.py 236-237 and 282-283): the first call that raises ends the loop
UpdateEach(st, pd, i, today) ==
    IF i > Len(pd) THEN [raised |-> FALSE, store |-> st]
    ELSE LET r == update_product_file(st, pd[i].key[1], pd[i].key[2], pd[i].key[3],
                                      pd[i].records, today)
         IN IF r.raised THEN r
            ELSE UpdateEach(r.store, pd, i + 1, today)

RECURSIVE MergeAll(_, _, _)
\* for key, records in daily_data.items(): all_price_data[key].extend(records)
MergeAll(all, daily, i) ==
    IF i > Len(daily) THEN all
    ELSE MergeAll(Extend(all, daily[i].key, daily[i].records), daily, i + 1)

(***************************************************************************)
(* download_file (utils.py 30-50).  files: the archive files in the        *)
(* working directory, by date label.  outcome: what the transfer does.     *)
(***************************************************************************)
NoFiles == [d \in {} |-> 0]

Truncated == [entries |-> <<>>, damage |-> "truncated"]

RemoveFile(fs, dest) == [d \in (DOMAIN fs) \ {dest} |-> fs[d]]

download_file(fs, dest, outcome, archive) ==
    CASE outcome = "http_error" -> [ok |-> FALSE, files |-> fs]
      [] outcome = "stream_error" -> [ok |-> FALSE, files |-> (dest :> Truncated) @@ fs]
      [] outcome = "empty" -> [ok |-> FALSE, files |-> RemoveFile(fs, dest)]
      [] OTHER -> [ok |-> TRUE, files |-> (dest :> archive) @@ fs]

(***************************************************************************)
(* daily_update.py                                                         *)
(***************************************************************************)
\* the check with a glob pattern that matches no document
check_if_data_exists_WrongSuffix(st) == FALSE

\* some target category directory holds a *.json file
check_if_data_exists(st) ==
    \E category_id \in TARGET_CATEGORIES : \E p \in DOMAIN st : p[1] = category_id

\* the status without the exit(1) of the except clause
IncrementalStatus_ExceptSwallowed(downloaded, raised) ==
    IF ~downloaded THEN 1 ELSE 0

\* main's exit status in the daily update (daily_update.py 47-59)
IncrementalStatus(downloaded, raised) ==
    IF ~downloaded \/ raised THEN 1 ELSE 0

(***************************************************************************)
(* The input spaces                                                        *)
(***************************************************************************)
Uniform(v) == [f \in PRICE_FIELDS |-> v]

Only(field, v) == [f \in PRICE_FIELDS |-> IF f = field THEN v ELSE JAbsent]

Item(productId, subTypeName, price) ==
    [isDict |-> TRUE, productId |-> productId, subTypeName |-> subTypeName,
     price |-> price]

NotADict ==
    [isDict |-> FALSE, productId |-> JAbsent, subTypeName |-> JAbsent,
     price |-> Uniform(JAbsent)]

FoilLow == Item(JNum(555), JStr("Foil"), Uniform(JNum(100)))
FoilHigh == Item(JNum(555), JStr("Foil"), Only("marketPrice", JNum(201)))
NormalItem == Item(JNum(555), JAbsent, Uniform(JNum(150)))
ZeroId == Item(JNum(0), JStr("Foil"), Uniform(JNum(100)))
NoId == Item(JAbsent, JStr("Foil"), Uniform(JNum(100)))
WordId == Item(JStr("abc"), JStr("Foil"), Uniform(JNum(100)))
CorruptPrice == Item(JNum(556), JStr("Foil"), Only("marketPrice", JStr("n/a")))

SeqsUpTo(S, n) == UNION {[1..k -> S] : k \in 0..n}

\* member names: <date>/<categoryId>/<groupId>/prices and its near misses
EntryNames ==
    {<<"d", "/", "1", "/", "10", "/", "prices">>,
     <<"d", "\\", "3", "\\", "10", "\\", "prices">>,
     <<"d", "/", "1", "/", "10", "/", "x", "/", "prices">>,
     <<"d", "/", "9", "/", "10", "/", "prices">>,
     <<"d", "/", "1", "/", "10", "/", "skus">>,
     <<"d", "/", "1", "/", "prices">>,
     <<"d", "/", "1", "/", "10", "/", "prices", "/">>,
     <<"1", "/", "d", "/", "10", "/", "prices">>}

Contents ==
    {[kind |-> "malformed", items |-> <<>>],
     [kind |-> "scalar", items |-> <<>>],
     [kind |-> "results", items |-> <<FoilLow, NormalItem>>],
     [kind |-> "list", items |-> <<NoId, FoilHigh>>],
     [kind |-> "list", items |-> <<ZeroId, FoilLow>>],
     [kind |-> "list", items |-> <<FoilLow, NotADict, FoilHigh>>],
     [kind |-> "object", items |-> <<FoilHigh>>]}

Entries == [name : EntryNames, content : Contents]

\* the archives the extractor is called on
ExtractArchives ==
    [entries : SeqsUpTo(Entries, MaxEntries), damage : {"none", "header", "data"}]

PricesMember(items) ==
    [name |-> <<"d", "/", "1", "/", "10", "/", "prices">>,
     content |-> [kind |-> "list", items |-> items]]

\* what the archive host may serve for a date
HostArchives ==
    {[entries |-> <<PricesMember(items)>>, damage |-> "none"] :
        items \in {<<FoilLow>>, <<FoilHigh>>, <<FoilLow, NormalItem>>,
                   <<WordId, FoilLow>>, <<CorruptPrice, FoilLow>>}}
    \cup {[entries |-> <<PricesMember(<<FoilLow>>)>>, damage |-> dmg] :
             dmg \in {"header", "data"}}

\* the dates the host has an archive for
ServedDates == {Today0 - 1, Today0}

\* what a download of the date's archive can do: the transfer's outcome and,
\* when it completes, the archive received
Responses(date) ==
    IF date \in ServedDates
    THEN [outcome : {"http_error", "stream_error", "empty"}, archive : {Truncated}]
         \cup [outcome : {"ok"}, archive : HostArchives]
    ELSE [outcome : {"http_error"}, archive : {Truncated}]

\* whether z.extract had made the scratch directory when it raised
Partials(archive) == IF archive.damage = "data" THEN BOOLEAN ELSE {FALSE}

\* the records of one key handed to the aggregator
AvgOffsets == {7, 8, 30, 31}

AvgPrices ==
    {Uniform(JNull), Uniform(JNum(100)),
     [f \in PRICE_FIELDS |-> IF f = "marketPrice" THEN JNum(201) ELSE JNull],
     [f \in PRICE_FIELDS |-> CASE f = "lowPrice" -> JNum(34)
                               [] f = "marketPrice" -> JNum(100)
                               [] OTHER -> JNull]}

AvgRecords ==
    {[date |-> strftime(Today0 - k), productId |-> JNum(555), subTypeName |-> "Foil",
      price |-> pv] : k \in AvgOffsets, pv \in AvgPrices}

AvgKey == <<<<"1">>, "555", "Foil">>

(***************************************************************************)
(* State                                                                   *)
(*   pc              where the process is                                  *)
(*   mode            "bootstrap" or "incremental", once main has decided   *)
(*   today           the current UTC date                                  *)
(*   runs            runs of daily_update.py started so far                *)
(*   files           archive files in the working directory                *)
(*   temps           scratch directories temp_<label> in it, by label      *)
(*   store           the product documents under data/                     *)
(*   price_data      the mapping extract_prices_from_archive returned      *)
(*   all_price_data  fetch_and_build_history's accumulated mapping         *)
(*   i               fetch_and_build_history's loop variable               *)
(*   exitStatus      the process's exit status, once it has ended          *)
(*   log             the warning and error lines of the run                *)
(*   parsed          the members the last extraction opened                *)
(*   seen            every record handed to the aggregator so far          *)
(***************************************************************************)
VARIABLES pc, mode, today, runs, files, temps, store, price_data, all_price_data,
          i, exitStatus, log, parsed, seen

vars == <<pc, mode, today, runs, files, temps, store, price_data, all_price_data,
          i, exitStatus, log, parsed, seen>>

Init ==
    /\ pc = "start"
    /\ mode = "undecided"
    /\ today = Today0
    /\ runs = 1
    /\ files = NoFiles
    /\ temps = {}
    /\ store = EmptyStore
    /\ price_data = <<>>
    /\ all_price_data = <<>>
    /\ i = 0
    /\ exitStatus = 0
    /\ log = {}
    /\ parsed = <<>>
    /\ seen = <<>>

\* main, up to the choice between the history build and the daily update
\* (daily_update.py 25-45)
Main_Start ==
    /\ pc = "start"
    /\ IF ~check_if_data_exists(store)
       THEN /\ mode' = "bootstrap"
            /\ pc' = "boot_day"
            /\ i' = HistoryDays
       ELSE /\ mode' = "incremental"
            /\ pc' = "inc_download"
            /\ i' = i
    /\ UNCHANGED <<today, runs, files, temps, store, price_data, all_price_data,
                   exitStatus, log, parsed, seen>>

\* one iteration of fetch_and_build_history's loop (utils.py 254-275)
Boot_Day ==
    /\ pc = "boot_day"
    /\ LET date_str == strftime(today - i)
       IN \E resp \in Responses(today - i) : \E partial \in Partials(resp.archive) :
            LET dl == download_file(files, date_str, resp.outcome, resp.archive)
                ex == extract_prices_from_archive(resp.archive, date_str,
                                                  TARGET_CATEGORIES, temps, partial)
            IN IF dl.ok
               THEN /\ files' = RemoveFile(dl.files, date_str)
                    /\ temps' = ex.temps
                    /\ parsed' = ex.parsed
                    /\ all_price_data' =
                           IF ex.raised THEN all_price_data
                           ELSE MergeAll(all_price_data, ex.price_data, 1)
                    /\ log' = IF ex.raised
                              THEN log \cup {<<"Error processing", date_str>>}
                              ELSE log
               ELSE /\ files' = dl.files
                    /\ log' = log \cup {<<"Failed to download", date_str>>}
                    /\ UNCHANGED <<temps, parsed, all_price_data>>
    /\ i' = i - 1
    /\ pc' = IF i = 1 THEN "boot_build" ELSE "boot_day"
    /\ UNCHANGED <<mode, today, runs, store, price_data, exitStatus, seen>>

\* the aggregation pass that ends fetch_and_build_history (utils.py 277-285)
\* and main's return (daily_update.py 33-34); an exception of the pass is
\* caught nowhere and ends the process with status 1
Boot_Build ==
    /\ pc = "boot_build"
    /\ LET r == UpdateEach(store, all_price_data, 1, today)
       IN /\ store' = r.store
          /\ exitStatus' = IF r.raised THEN 1 ELSE 0
    /\ seen' = MergeAll(seen, all_price_data, 1)
    /\ pc' = "done"
    /\ UNCHANGED <<mode, today, runs, files, temps, price_data, all_price_data, i,
                   log, parsed>>

\* the daily update's download (daily_update.py 38-47, 57-59)
Inc_Download ==
    /\ pc = "inc_download"
    /\ LET date_str == strftime(today - 1)
       IN \E resp \in Responses(today - 1) :
            LET dl == download_file(files, date_str, resp.outcome, resp.archive)
            IN /\ files' = dl.files
               /\ IF dl.ok
                  THEN /\ pc' = "inc_process"
                       /\ UNCHANGED <<exitStatus, log>>
                  ELSE /\ pc' = "done"
                       /\ exitStatus' = IncrementalStatus(FALSE, FALSE)
                       /\ log' = log \cup {<<"Failed to download data for", date_str>>}
    /\ UNCHANGED <<mode, today, runs, temps, store, price_data, all_price_data, i,
                   parsed, seen>>

\* process_daily_data under main's try/except/finally (daily_update.py 48-56,
\* utils.py 220-239)
Inc_Process ==
    /\ pc = "inc_process"
    /\ LET date_str == strftime(today - 1)
       IN \E partial \in Partials(files[date_str]) :
            LET ex == extract_prices_from_archive(files[date_str], date_str,
                                                  TARGET_CATEGORIES, temps, partial)
                up == IF ex.raised THEN [raised |-> TRUE, store |-> store]
                      ELSE UpdateEach(store, ex.price_data, 1, today)
            IN /\ temps' = ex.temps
               /\ parsed' = ex.parsed
               /\ price_data' = ex.price_data
               /\ store' = up.store
               /\ seen' = IF ex.raised THEN seen ELSE MergeAll(seen, ex.price_data, 1)
               /\ exitStatus' = IncrementalStatus(TRUE, up.raised)
               /\ log' = IF up.raised
                         THEN log \cup {<<"Failed to process", date_str>>}
                         ELSE log
               /\ files' = RemoveFile(files, date_str)
    /\ pc' = "done"
    /\ UNCHANGED <<mode, today, runs, all_price_data, i>>

\* the daily schedule starts the script again the next day
NextRun ==
    /\ pc = "done"
    /\ runs < MaxRuns
    /\ today' = today + 1
    /\ runs' = runs + 1
    /\ pc' = "start"
    /\ mode' = "undecided"
    /\ price_data' = <<>>
    /\ all_price_data' = <<>>
    /\ i' = 0
    /\ exitStatus' = 0
    /\ log' = {}
    /\ parsed' = <<>>
    /\ UNCHANGED <<files, temps, store, seen>>

Next ==
    \/ Main_Start
    \/ Boot_Day
    \/ Boot_Build
    \/ Inc_Download
    \/ Inc_Process
    \/ NextRun

Spec == Init /\ [][Next]_vars

(***************************************************************************)
(* The extractor on its own: one call of extract_prices_from_archive on    *)
(* an archive file of the working directory                                *)
(***************************************************************************)
ExtractLabel == strftime(Today0 - 1)

InitExtract ==
    /\ pc = "extract_call"
    /\ mode = "undecided"
    /\ today = Today0
    /\ runs = 1
    /\ files \in {ExtractLabel :> archive : archive \in ExtractArchives}
    /\ temps = {}
    /\ store = EmptyStore
    /\ price_data = <<>>
    /\ all_price_data = <<>>
    /\ i = 0
    /\ exitStatus = 0
    /\ log = {}
    /\ parsed = <<>>
    /\ seen = <<>>

ExtractCall ==
    /\ pc = "extract_call"
    /\ \E partial \in Partials(files[ExtractLabel]) :
         LET ex == extract_prices_from_archive(files[ExtractLabel], ExtractLabel,
                                               TARGET_CATEGORIES, temps, partial)
         IN /\ temps' = ex.temps
            /\ parsed' = ex.parsed
            /\ price_data' = ex.price_data
            /\ pc' = IF ex.raised THEN "extract_raised" ELSE "extract_returned"
    /\ UNCHANGED <<mode, today, runs, files, store, all_price_data, i, exitStatus,
                   log, seen>>

SpecExtract == InitExtract /\ [][ExtractCall]_vars

(***************************************************************************)
(* The aggregator on its own: the aggregation pass over one key's records  *)
(***************************************************************************)
InitAvg ==
    /\ pc = "boot_build"
    /\ mode = "bootstrap"
    /\ today = Today0
    /\ runs = 1
    /\ files = NoFiles
    /\ temps = {}
    /\ store = EmptyStore
    /\ price_data = <<>>
    /\ all_price_data \in
           {<<[key |-> AvgKey, records |-> rs]>> :
               rs \in SeqsUpTo(AvgRecords, MaxRecs) \ {<<>>}}
    /\ i = 0
    /\ exitStatus = 0
    /\ log = {}
    /\ parsed = <<>>
    /\ seen = <<>>

SpecAvg == InitAvg /\ [][Boot_Build]_vars

(***************************************************************************)
(* Properties                                                              *)
(***************************************************************************)
\* the mapping the run's aggregation pass went over
PassData == IF mode = "bootstrap" THEN all_price_data ELSE price_data

\* the pass can aggregate and store this key when it is the only one
AggregatesAlone(e) ==
    ~update_product_file(EmptyStore, e.key[1], e.key[2], e.key[3], e.records,
                         today).raised

\* C1: after an incremental run over one new date's records of a key that
\* earlier runs had already processed on other dates, the key's document
\* holds the averages over all records known for the key, within the
\* trailing windows, not only over the latest run's records.
C1_MergeKeepsHistory ==
    (/\ pc = "done" /\ mode = "incremental" /\ exitStatus = 0
     /\ Len(price_data) = 1 /\ Len(seen) = 1
     /\ \E j \in DOMAIN seen[1].records :
            seen[1].records[j].date # strftime(today - 1))
    => LET key == price_data[1].key
           known == calculate_averages(seen[1].records, today)
       IN /\ <<key[1], key[2]>> \in DOMAIN store
          /\ store[<<key[1], key[2]>>].avg30 = known.avg30
          /\ store[<<key[1], key[2]>>].avg7 = known.avg7

\* C2: after a run that ended well, every key of the pass, two keys that
\* differ only in subTypeName included, has a document of its own: one with
\* the key's productId and subTypeName and the averages of the key's records.
C2_OneDocumentPerKey ==
    (pc = "done" /\ exitStatus = 0)
    => \A k \in DOMAIN PassData :
         LET e == PassData[k]
             own == calculate_averages(e.records, today)
         IN \E p \in DOMAIN store :
               /\ p[1] = e.key[1]
               /\ store[p].productId = PyInt(e.key[2])
               /\ store[p].subTypeName = e.key[3]
               /\ store[p].avg30 = own.avg30
               /\ store[p].avg7 = own.avg7

\* the dates within the last `window` days of today
C3_InLast(window, record) ==
    \E k \in 0..window : record.date = strftime(today - k)

\* the records that count for a field's average: in the window, value not null
C3_Counted(records, window, field) ==
    {j \in DOMAIN records :
        C3_InLast(window, records[j]) /\ records[j].price[field] # JNull}

RECURSIVE C3_Total(_, _, _)
C3_Total(records, S, field) ==
    IF S = {} THEN 0
    ELSE LET j == CHOOSE x \in S : TRUE
         IN records[j].price[field].n + C3_Total(records, S \ {j}, field)

\* avg is the mean of the counted values to the nearest cent (at most half a
\* cent off), and null exactly when nothing counts
C3_IsMean(avg, records, window, field) ==
    LET S == C3_Counted(records, window, field)
        n == Cardinality(S)
        total == C3_Total(records, S, field)
    IN IF n = 0 THEN avg = JNull
       ELSE /\ avg.t = "num"
            /\ 2 * (n * avg.n - total) <= n
            /\ 2 * (total - n * avg.n) <= n

\* C3: for every key and tracked field, avg30 (avg7) is the mean, rounded to
\* 2 decimals, of the field's non-null values among the key's records dated
\* within the last 30 (7) days, every record of a date counted, and is null
\* exactly when no record in the window has a value for the field.
C3_RollingAverages ==
    (pc = "done" /\ exitStatus = 0)
    => \A k \in DOMAIN all_price_data :
         LET e == all_price_data[k]
             path == <<e.key[1], e.key[2]>>
         IN /\ path \in DOMAIN store
            /\ \A f \in PRICE_FIELDS :
                 /\ C3_IsMean(store[path].avg30[f], e.records, 30, f)
                 /\ C3_IsMean(store[path].avg7[f], e.records, 7, f)

\* C3's case: two records of one date at the edge of the 30-day window and a
\* record one day outside it; avg30 is their mean and avg7 is null
C3_Witness ==
    /\ pc = "done" /\ exitStatus = 0
    /\ \E k \in DOMAIN all_price_data :
         LET e == all_price_data[k]
             path == <<e.key[1], e.key[2]>>
         IN /\ path \in DOMAIN store
            /\ \E a, b \in DOMAIN e.records :
                  /\ a # b
                  /\ e.records[a].date = strftime(today - 30)
                  /\ e.records[b].date = strftime(today - 30)
                  /\ e.records[a].price["marketPrice"] = JNum(100)
                  /\ e.records[b].price["marketPrice"] = JNum(201)
            /\ \E a \in DOMAIN e.records :
                  /\ e.records[a].date = strftime(today - 31)
                  /\ e.records[a].price["marketPrice"].t = "num"
            /\ store[path].avg30["marketPrice"] \in {JNum(150), JNum(151)}
            /\ store[path].avg30["lowPrice"] = JNum(100)
            /\ store[path].avg7["marketPrice"] = JNull

\* C4: in one aggregation pass a key whose own aggregation does not fail is
\* aggregated and stored, whatever happens to the other keys of the pass.
C4_PerKeyIsolation ==
    pc = "done"
    => \A k \in DOMAIN PassData :
         AggregatesAlone(PassData[k])
         => <<PassData[k].key[1], PassData[k].key[2]>> \in DOMAIN store

\* C5: when a call of extract_prices_from_archive has returned or raised, the
\* scratch directory temp_<dateLabel> does not exist.
C5_NoScratchLeft ==
    pc \in {"extract_returned", "extract_raised"} => ExtractLabel \notin temps

\* C6: when a run has ended, no downloaded archive file remains on disk.
C6_NoArchiveLeft ==
    pc = "done" => DOMAIN files = {}

\* C7: an incremental run ends with a non-zero status exactly when its
\* download failed or its processing raised; a bootstrap run goes through
\* every day of the window whatever failed on the way, then runs the
\* aggregation pass over what the good days gave, and ends with a non-zero
\* status only if that pass itself raised.
C7_ExitStatusByMode ==
    pc = "done"
    => /\ mode = "incremental"
          => (exitStatus # 0
              <=> \E l \in log :
                     l[1] \in {"Failed to download data for", "Failed to process"})
       /\ mode = "bootstrap"
          => /\ i = 0
             /\ exitStatus # 0
                => \E k \in DOMAIN all_price_data : ~AggregatesAlone(all_price_data[k])
             /\ exitStatus = 0
                => \A k \in DOMAIN all_price_data :
                      <<all_price_data[k].key[1], all_price_data[k].key[2]>>
                          \in DOMAIN store

\* C7's case: a bootstrap run with a day whose download failed and a day whose
\* extraction failed has stored the documents of a good day and ended with 0
C7_Witness ==
    /\ pc = "done" /\ mode = "bootstrap" /\ exitStatus = 0
    /\ \E l \in log : l[1] = "Failed to download"
    /\ \E l \in log : l[1] = "Error processing"
    /\ all_price_data # <<>>
    /\ DOMAIN store # {}

\* C8: the mode is decided once, at the start of a run: bootstrap if and only
\* if the store holds no product document at that moment, incremental
\* otherwise; it stays as decided for the rest of the run, and the steps of
\* the history build and of the daily update are taken only in their mode.
C8_ModeDecidedOnce ==
    [][/\ (pc = "start" /\ pc' # "start")
          => /\ mode' = "bootstrap" <=> DOMAIN store = {}
             /\ mode' = "incremental" <=> DOMAIN store # {}
       /\ (pc # "start" /\ pc' # "start") => mode' = mode
       /\ pc' \in {"boot_day", "boot_build"} => mode' = "bootstrap"
       /\ pc' \in {"inc_download", "inc_process"} => mode' = "incremental"]_vars

\* C8's case: a later run found documents and went on as a daily update
C8_Witness ==
    /\ runs > 1 /\ mode = "incremental" /\ pc = "inc_process"
    /\ DOMAIN store # {}

\* the separators of a member name
SepPositions(name) == {k \in DOMAIN name : name[k] \in {"/", "\\"}}

\* the name has at least 4 segments, its second segment is a target category
\* id and its last segment is prices
PathQualifies(name) ==
    LET seps == SepPositions(name)
    IN /\ Cardinality(seps) >= 3
       /\ LET first == CHOOSE k \in seps : \A m \in seps : k <= m
              second == CHOOSE k \in seps \ {first} : \A m \in seps \ {first} : k <= m
              last == CHOOSE k \in seps : \A m \in seps : m <= k
          IN /\ SubSeq(name, first + 1, second - 1)
                    \in {<<"1">>, <<"2">>, <<"3">>, <<"68">>}
             /\ SubSeq(name, last + 1, Len(name)) = <<"prices">>

\* C9: the members opened and parsed are exactly those whose path qualifies;
\* every key of the returned mapping has the category of a parsed member
\* that holds an item of its product; an archive with no qualifying member
\* gives an empty mapping, not an error.
C9_EntryFilter ==
    pc \in {"extract_returned", "extract_raised"}
    => LET archive == files[ExtractLabel]
           qualifying == SelectSeq(archive.entries, LAMBDA e : PathQualifies(e.name))
       IN /\ pc = "extract_returned" => parsed = qualifying
          /\ pc = "extract_raised" => parsed = <<>> /\ price_data = <<>>
          /\ \A k \in DOMAIN price_data :
                \E j \in DOMAIN parsed : \E m \in DOMAIN parsed[j].content.items :
                   /\ PathQualifies(parsed[j].name)
                   /\ price_data[k].key[1] \in {<<"1">>, <<"2">>, <<"3">>, <<"68">>}
                   /\ Parts(parsed[j].name)[2] = price_data[k].key[1]
                   /\ PyStr(parsed[j].content.items[m].productId) = price_data[k].key[2]
          /\ (qualifying = <<>> /\ archive.damage # "header")
             => pc = "extract_returned" /\ price_data = <<>>

\* C9's case: an archive with a qualifying member and one that does not
\* qualify; only the first was parsed and gave records
C9_Witness ==
    /\ pc = "extract_returned"
    /\ Len(files[ExtractLabel].entries) = 2
    /\ Len(parsed) = 1
    /\ price_data # <<>>

\* the content is a list of objects, or an object
WellFormed(content) ==
    /\ content.kind \in {"results", "list", "object"}
    /\ \A m \in DOMAIN content.items : content.items[m].isDict

\* C10: when a qualifying member of a readable archive is malformed or of an
\* unexpected shape, the call returns, and every item with a non-null
\* productId of every other, well-formed qualifying member is a record of
\* the returned mapping.
C10_ParseIsolation ==
    (/\ pc \in {"extract_returned", "extract_raised"}
     /\ files[ExtractLabel].damage = "none"
     /\ \E j \in DOMAIN files[ExtractLabel].entries :
           /\ PathQualifies(files[ExtractLabel].entries[j].name)
           /\ ~WellFormed(files[ExtractLabel].entries[j].content))
    => /\ pc = "extract_returned"
       /\ \A j \in DOMAIN files[ExtractLabel].entries :
            LET e == files[ExtractLabel].entries[j]
            IN (PathQualifies(e.name) /\ WellFormed(e.content))
               => \A m \in DOMAIN e.content.items :
                    LET item == e.content.items[m]
                    IN item.productId \notin {JAbsent, JNull}
                       => \E k \in DOMAIN price_data :
                            /\ price_data[k].key[1] = Parts(e.name)[2]
                            /\ price_data[k].key[2] = PyStr(item.productId)
                            /\ \E r \in DOMAIN price_data[k].records :
                                 /\ price_data[k].records[r].productId = item.productId
                                 /\ price_data[k].records[r].date = ExtractLabel
                                 /\ price_data[k].records[r].price
                                        = [f \in PRICE_FIELDS |-> Get(item.price[f])]

====
